---- MODULE Spec2Model ----
(***************************************************************************)
(* Session coordinator of the quiz server (server.js): the in-memory       *)
(* `state` object, the `pendingTakeovers` map, the socket.io connection    *)
(* table and one action per socket event handler and per timer tick.       *)
(*                                                                         *)
(* Every handler is a function from a "world" record (state,               *)
(* pendingTakeovers, sockets, emitted, calls) to the world it leaves       *)
(* behind, so that a handler that calls another one (kickTeamSocket ->     *)
(* socket.disconnect -> the 'disconnect' handler, hostApproveTakeover ->   *)
(* doJoinTeam -> broadcast) is the composition of the operators.           *)
(*                                                                         *)
(* Not modelled: display metadata of a team (name, avatar, members, ip,    *)
(* user agent, joinedAt), requestedAt of a takeover, title, gameId and     *)
(* questionRunId: no handler branches on them.                             *)
(***************************************************************************)
EXTENDS Integers, Sequences, FiniteSets, TLC

\* ------------------------------------------------------------------ bounds
NumSockets == 2     \* socket ids 1..NumSockets (an id is reused after a disconnect)
MaxNow     == 3     \* Date.now() advances at most to MaxNow * StepMs
StepMs     == 3000  \* ms the wall clock advances between two events
MaxScore   == 40    \* scores are kept within -1..MaxScore

\* ------------------------------------------------------- program constants
null      == -1     \* JS null / undefined of a numeric or id field
maxPoints == 20
graceSec  == 4
defaultTimeSec == 20

Sockets == 1..NumSockets

\* The Teams sheet the server loaded: two teams, with the codes 1 and 2.
TEAM_REGISTRY == {1, 2}
Pins == TEAM_REGISTRY
PinInputs == Pins \cup {0}      \* 0 is a code that is not in the Teams sheet

VARIABLES
    state,             \* the `state` object
    pendingTakeovers,  \* Map pin -> requesterId
    sockets,           \* io.sockets.sockets: ids of the live connections
    now,               \* Date.now()
    QUESTION_BANK,     \* questions loaded at bootstrap
    emitted,           \* messages emitted while handling the last event
    calls,             \* sheet writes issued while handling the last event
    lastEvent,         \* the last event handled and what it found
    scoreProbe         \* a call of computeQuestionScore: its arguments and result

vars == <<state, pendingTakeovers, sockets, now, QUESTION_BANK, emitted, calls, lastEvent,
          scoreProbe>>

\* ------------------------------------------------------------------ helpers
Max(a, b) == IF a >= b THEN a ELSE b

\* Math.ceil(a / b) for b > 0
CeilDiv(a, b) == IF a >= 0 THEN (a + b - 1) \div b ELSE -((-a) \div b)

\* Map.set / Map.delete on a function used as a Map
MapSet(m, k, v) == [x \in (DOMAIN m) \cup {k} |-> IF x = k THEN v ELSE m[x]]
MapDelete(m, k) == [x \in (DOMAIN m) \ {k} |-> m[x]]
EmptyMap == [x \in {} |-> null]

\* ------------------------------------------------------------ question bank
Question(id, correct, t) == [qId |-> id, correctIndex |-> correct, timeSec |-> t]

\* The Questions sheets the server may have loaded.
Banks_Loaded == <<Question(1, 1, 5), Question(2, 0, 2)>>
Banks == { <<>>, Banks_Loaded }

\* The orders of the four choices shuffleArray is taken to produce
\* (position -> original index)
ChoicePerms == { <<1, 0, 3, 2>> }

\* pairs.findIndex(p => p.origIdx === q.correctIndex), 0-based
shuffleChoicesForQuestion(q, perm) ==
    [q EXCEPT !.correctIndex = (CHOOSE i \in 1..4 : perm[i] = q.correctIndex) - 1]

SeqPerms(s) ==
    { [i \in 1..Len(s) |-> s[f[i]]] :
        f \in { g \in [1..Len(s) -> 1..Len(s)] : \A i, j \in 1..Len(s) : g[i] = g[j] => i = j } }

\* The question runs buildGameQuestions may return.
buildGameQuestions(shuffleQuestions, shuffleChoices) ==
    LET afterChoices ==
            IF shuffleChoices
            THEN { [i \in 1..Len(QUESTION_BANK) |->
                        shuffleChoicesForQuestion(QUESTION_BANK[i], pf[i])] :
                     pf \in [1..Len(QUESTION_BANK) -> ChoicePerms] }
            ELSE { QUESTION_BANK }
    IN  IF shuffleQuestions
        THEN UNION { SeqPerms(ql) : ql \in afterChoices }
        ELSE afterChoices

\* ---------------------------------------------------------------- scoring
\* computeQuestionScore with Math.floor in place of Math.ceil
computeQuestionScoreRoundsDown(isCorrect, lockedAtRunMs, timeSec) ==
    IF ~isCorrect THEN 0
    ELSE LET budget    == IF timeSec = null THEN 20 ELSE Max(1, timeSec)
             elapsedMs == IF lockedAtRunMs = null THEN budget * 1000 ELSE lockedAtRunMs
         IN  IF elapsedMs <= graceSec * 1000 THEN maxPoints
             ELSE Max(0, maxPoints - Max(0, (elapsedMs - graceSec * 1000) \div 1000))

\* computeQuestionScore.  A budget or a lock time that is not a finite number
\* is written null: the budget then counts as 20 and the lock time as the
\* whole budget.  Budgets are whole seconds, so Math.round is the identity.
computeQuestionScore(isCorrect, lockedAtRunMs, timeSec) ==
    IF ~isCorrect THEN 0
    ELSE LET budget    == IF timeSec = null THEN 20 ELSE Max(1, timeSec)
             elapsedMs == IF lockedAtRunMs = null THEN budget * 1000 ELSE lockedAtRunMs
         IN  IF elapsedMs <= graceSec * 1000 THEN maxPoints
             ELSE LET secondsLate == Max(0, CeilDiv(elapsedMs - graceSec * 1000, 1000))
                  IN  Max(0, maxPoints - secondsLate)

\* ------------------------------------------------------------------ state
resetState ==
    [ phase            |-> "lobby",
      qIndex           |-> -1,
      paused           |-> TRUE,
      manualScoring    |-> FALSE,
      startedAtMs      |-> 0,
      accumulatedRunMs |-> 0,
      timeSec          |-> defaultTimeSec,
      shuffleQuestions |-> TRUE,
      shuffleChoices   |-> TRUE,
      gameQuestions    |-> <<>>,          \* null
      teams            |-> EmptyMap,       \* socketId -> team
      claimedPins      |-> {},
      hostId           |-> null,
      projectorIds     |-> {},
      questionLogged   |-> FALSE ]

\* The world a handler starts from.
World ==
    [ state            |-> state,
      pendingTakeovers |-> pendingTakeovers,
      sockets          |-> sockets,
      emitted          |-> {},
      calls            |-> <<>> ]

\* state.gameQuestions[state.qIndex], or <<>> for null
getCurrentQuestionObj(st) ==
    IF st.gameQuestions # <<>> /\ st.qIndex >= 0 /\ st.qIndex < Len(st.gameQuestions)
    THEN <<st.gameQuestions[st.qIndex + 1]>>
    ELSE <<>>

getRunElapsedMs(st) ==
    IF st.phase # "question" THEN st.accumulatedRunMs
    ELSE IF st.paused THEN st.accumulatedRunMs
    ELSE st.accumulatedRunMs + (now - st.startedAtMs)

\* Math.max(0, Math.ceil(state.timeSec - elapsed / 1000)); null outside question
getRemainingSec(st) ==
    IF st.phase # "question" THEN null
    ELSE Max(0, CeilDiv(st.timeSec * 1000 - getRunElapsedMs(st), 1000))

\* a host test that lets a joined team through
isHostOrTeam(w, s) == s = w.state.hostId \/ s \in DOMAIN w.state.teams

isHost(w, s) == s = w.state.hostId

\* publicState(): the title and the display fields of a team are constants of
\* the sheet and are left out
publicState(st) ==
    [ phase            |-> st.phase,
      qIndex           |-> st.qIndex,
      paused           |-> st.paused,
      manualScoring    |-> st.manualScoring,
      timer            |-> getRemainingSec(st),
      question         |-> getCurrentQuestionObj(st),
      teams            |-> [id \in DOMAIN st.teams |->
                              [pin           |-> st.teams[id].pin,
                               score         |-> st.teams[id].score,
                               lockedChoice  |-> st.teams[id].lockedChoice,
                               lockedAtRunMs |-> st.teams[id].lockedAtRunMs,
                               lastResult    |-> st.teams[id].lastResult]],
      shuffleQuestions |-> st.shuffleQuestions,
      shuffleChoices   |-> st.shuffleChoices ]

\* hostState(): the teams and the takeover queue; the device data of a team
\* and of a request (ip, user agent, times) are left out
hostState(w) ==
    [ teams     |-> [id \in DOMAIN w.state.teams |->
                       [pin |-> w.state.teams[id].pin, score |-> w.state.teams[id].score]],
      takeovers |-> w.pendingTakeovers ]

\* what a message carries: a projection of the moment it is sent, or nothing
\* the model looks at
Payload(w, ev) ==
    CASE ev = "state"     -> [public |-> publicState(w.state)]
      [] ev = "hostState" -> [host |-> hostState(w)]
      [] OTHER            -> [none |-> TRUE]

\* socket.emit / io.to(id).emit: delivered only to a live connection; of the
\* messages of one event to one connection the last is kept
Emit(w, to, ev) ==
    IF to \in w.sockets
    THEN [w EXCEPT !.emitted = {m \in @ : m.to # to \/ m.ev # ev}
                                 \cup {[to |-> to, ev |-> ev, data |-> Payload(w, ev)]}]
    ELSE w

\* a broadcast that forgets the host projection
broadcastPublicOnly(w) ==
    [w EXCEPT !.emitted = {m \in @ : m.ev # "state" \/ m.to \notin w.sockets}
                          \cup {[to |-> s, ev |-> "state", data |-> Payload(w, "state")]
                                  : s \in w.sockets}]

broadcast(w) ==
    LET w1 == [w EXCEPT !.emitted = {m \in @ : m.ev # "state" \/ m.to \notin w.sockets}
                                    \cup {[to |-> s, ev |-> "state", data |-> Payload(w, "state")]
                                            : s \in w.sockets}]
    IN  IF w.state.hostId # null THEN Emit(w1, w.state.hostId, "hostState") ELSE w1

Call(w, what) == [w EXCEPT !.calls = Append(@, what)]

\* --------------------------------------------------- team join / takeover
NewTeam(id, pin) ==
    [ id |-> id, pin |-> pin, score |-> 0,
      lockedChoice |-> null, lockedAtRunMs |-> null,
      lastResult |-> "null", lastPointsAwarded |-> 0 ]

TeamsWithPin(st, pin) == { id \in DOMAIN st.teams : st.teams[id].pin = pin }

\* [...state.teams.values()].find(t => t.pin === p) || null ; <<>> for null
findTeamByPin(st, pin) ==
    IF TeamsWithPin(st, pin) = {} THEN <<>>
    ELSE <<st.teams[CHOOSE id \in TeamsWithPin(st, pin) : TRUE]>>

\* requesterId = null: delete whatever request the pin has
clearPendingTakeoverForPin(w, pin, requesterId) ==
    IF pin \notin DOMAIN w.pendingTakeovers THEN w
    ELSE IF requesterId # null /\ w.pendingTakeovers[pin] # requesterId THEN w
    ELSE [w EXCEPT !.pendingTakeovers = MapDelete(@, pin)]

\* Mutant of doJoinTeam: joining a team also withdraws the requests the
\* joining connection has pending for other codes.
doJoinTeamDropsRequests(w, s, enteredPin) ==
    LET w1 == [w EXCEPT !.state.claimedPins = @ \cup {enteredPin},
                        !.state.teams = MapSet(@, s, NewTeam(s, enteredPin)),
                        !.pendingTakeovers =
                            [p \in { q \in DOMAIN @ : @[q] # s } |-> @[p]]]
    IN  broadcast(Emit(w1, s, "joined"))

doJoinTeam(w, s, enteredPin) ==
    LET w1 == [w EXCEPT !.state.claimedPins = @ \cup {enteredPin},
                        !.state.teams = MapSet(@, s, NewTeam(s, enteredPin))]
    IN  broadcast(Emit(w1, s, "joined"))

\* a disconnect handler that leaves the requests of the connection in place
onDisconnectKeepsRequests(w, s) ==
    LET w1 == [w EXCEPT !.state.hostId = IF @ = s THEN null ELSE @,
                        !.state.projectorIds = @ \ {s}]
        w2 == IF s \in DOMAIN w1.state.teams
              THEN LET team == w1.state.teams[s]
                   IN  clearPendingTakeoverForPin(
                           [w1 EXCEPT !.state.claimedPins = @ \ {team.pin},
                                      !.state.teams = MapDelete(@, s)],
                           team.pin, null)
              ELSE w1
    IN  broadcast(w2)

\* socket.on("disconnect"), run after socket.io dropped the connection
onDisconnect(w, s) ==
    LET w1 == [w EXCEPT !.state.hostId = IF @ = s THEN null ELSE @,
                        !.state.projectorIds = @ \ {s}]
        w2 == IF s \in DOMAIN w1.state.teams
              THEN LET team == w1.state.teams[s]
                   IN  clearPendingTakeoverForPin(
                           [w1 EXCEPT !.state.claimedPins = @ \ {team.pin},
                                      !.state.teams = MapDelete(@, s)],
                           team.pin, null)
              ELSE w1
        w3 == [w2 EXCEPT !.pendingTakeovers =
                  [p \in { q \in DOMAIN @ : @[q] # s } |-> @[p]]]
    IN  broadcast(w3)

\* socket.disconnect(true): the connection leaves io.sockets.sockets and its
\* 'disconnect' handler runs before disconnect() returns
socketDisconnect(w, s) ==
    onDisconnect([w EXCEPT !.sockets = @ \ {s}], s)

\* Mutant of kickTeamSocket: the holder is told it was kicked, but neither
\* disconnected nor removed.
kickTeamSocketOnlyNotifies(w, team) == Emit(w, team.id, "kicked")

\* team is the Team object the caller holds (never null here: callers test it)
kickTeamSocket(w, team) ==
    LET w1 == IF team.id \in w.sockets
              THEN socketDisconnect(Emit(w, team.id, "kicked"), team.id)
              ELSE w
    IN  [w1 EXCEPT !.state.claimedPins = @ \ {team.pin},
                   !.state.teams = MapDelete(@, team.id)]

registerHost(w, s) ==
    Emit(Emit([w EXCEPT !.state.hostId = s], s, "state"), s, "hostState")

registerProjector(w, s) ==
    Emit([w EXCEPT !.state.projectorIds = @ \cup {s}], s, "state")

joinTeam(w, s, pin) ==
    IF pin \notin TEAM_REGISTRY THEN Emit(w, s, "joinError")
    ELSE IF s \in DOMAIN w.state.teams THEN Emit(w, s, "joinError")
    ELSE IF pin \in w.state.claimedPins
    THEN LET w1 == [w EXCEPT !.pendingTakeovers = MapSet(@, pin, s)]
             w2 == Emit(w1, s, "takeoverRequested")
         IN  IF w2.state.hostId # null
             THEN Emit(Emit(w2, w2.state.hostId, "takeoverPending"),
                       w2.state.hostId, "hostState")
             ELSE w2
    ELSE doJoinTeam(w, s, pin)

\* teamId / pin = null when the payload does not carry the field
hostKickTeam(w, s, teamId, pin) ==
    IF ~isHost(w, s) THEN w
    ELSE LET target == IF teamId # null
                       THEN (IF teamId \in DOMAIN w.state.teams
                             THEN <<w.state.teams[teamId]>> ELSE <<>>)
                       ELSE IF pin # null THEN findTeamByPin(w.state, pin)
                       ELSE <<>>
         IN  IF target = <<>> THEN w
             ELSE broadcast(kickTeamSocket(
                      clearPendingTakeoverForPin(w, target[1].pin, null), target[1]))

\* hostApproveTakeover up to and including the eviction of the current holder
approveEvict(w, p) ==
    LET currentTeam == findTeamByPin(w.state, p)
    IN  IF currentTeam # <<>>
        THEN kickTeamSocket(w, currentTeam[1])
        ELSE [w EXCEPT !.state.claimedPins = @ \ {p}]

\* Mutant of approveJoin: the request is discarded without seating the
\* requester.
approveJoinForgetsRequester(w, p, requesterId, requesterAlive) ==
    broadcast([w EXCEPT !.pendingTakeovers = MapDelete(@, p)])

\* the rest of hostApproveTakeover; requesterAlive is whether
\* io.sockets.sockets.get(req.requesterId) found the socket before the eviction
approveJoin(w, p, requesterId, requesterAlive) ==
    LET w1 == IF requesterAlive
              THEN IF p \notin TEAM_REGISTRY
                   THEN Emit(w, requesterId, "joinError")
                   ELSE Emit(doJoinTeam([w EXCEPT !.state.claimedPins = @ \ {p}],
                                        requesterId, p),
                             requesterId, "takeoverApproved")
              ELSE w
    IN  broadcast([w1 EXCEPT !.pendingTakeovers = MapDelete(@, p)])

\* an approval that hands the holder's score and lock over to the requester
hostApproveTakeoverHandsOver(w, s, p) ==
    IF ~isHost(w, s) THEN w
    ELSE IF p \notin DOMAIN w.pendingTakeovers THEN w
    ELSE LET requesterId == w.pendingTakeovers[p]
             cur         == findTeamByPin(w.state, p)
             w1          == approveJoin(approveEvict(w, p), p, requesterId,
                                        requesterId \in w.sockets)
         IN  IF cur # <<>> /\ requesterId \in DOMAIN w1.state.teams
             THEN [w1 EXCEPT !.state.teams[requesterId].score = cur[1].score,
                             !.state.teams[requesterId].lockedChoice = cur[1].lockedChoice,
                             !.state.teams[requesterId].lockedAtRunMs = cur[1].lockedAtRunMs]
             ELSE w1

hostApproveTakeover(w, s, p) ==
    IF ~isHost(w, s) THEN w
    ELSE IF p \notin DOMAIN w.pendingTakeovers THEN w
    ELSE LET requesterId == w.pendingTakeovers[p]
         IN  approveJoin(approveEvict(w, p), p, requesterId, requesterId \in w.sockets)

\* Mutant of hostDenyTakeover: the denial also evicts the holder of the code.
hostDenyTakeoverEvictsHolder(w, s, p) ==
    IF ~isHost(w, s) THEN w
    ELSE IF p \notin DOMAIN w.pendingTakeovers THEN w
    ELSE broadcast([Emit(approveEvict(w, p), w.pendingTakeovers[p], "takeoverDenied")
                       EXCEPT !.pendingTakeovers = MapDelete(@, p)])

hostDenyTakeover(w, s, p) ==
    IF ~isHost(w, s) THEN w
    ELSE IF p \notin DOMAIN w.pendingTakeovers THEN w
    ELSE broadcast([Emit(w, w.pendingTakeovers[p], "takeoverDenied")
                       EXCEPT !.pendingTakeovers = MapDelete(@, p)])

\* a reset that leaves the takeover requests
hostResetKeepsRequests(w, s) ==
    IF ~isHost(w, s) THEN w
    ELSE broadcast([w EXCEPT !.state = resetState])

\* a reset that keeps the host registered
hostResetKeepsHost(w, s) ==
    IF ~isHost(w, s) THEN w
    ELSE broadcast([w EXCEPT !.state = [resetState EXCEPT !.hostId = w.state.hostId],
                             !.pendingTakeovers = EmptyMap])

hostReset(w, s) ==
    IF ~isHost(w, s) THEN w
    ELSE broadcast([w EXCEPT !.state = resetState, !.pendingTakeovers = EmptyMap])

\* ------------------------------------------------------------- sheet writes
TeamIds(st) == DOMAIN st.teams

\* a question log without the questionLogged guard
logQuestionAlways(w) ==
    IF w.state.phase # "question" THEN w
    ELSE IF getCurrentQuestionObj(w.state) = <<>> THEN w
    ELSE Call([w EXCEPT !.state.questionLogged = TRUE],
              [fn |-> "appendQuestionRow", rows |-> 1])

\* The part of logQuestionIfNeeded that runs before its first await.
logQuestionIfNeeded(w) ==
    IF w.state.phase # "question" THEN w
    ELSE IF w.state.questionLogged THEN w
    ELSE IF getCurrentQuestionObj(w.state) = <<>> THEN w
    ELSE Call([w EXCEPT !.state.questionLogged = TRUE],
              [fn |-> "appendQuestionRow", rows |-> 1])

logAnswersNow(w) ==
    IF getCurrentQuestionObj(w.state) = <<>> THEN w
    ELSE Call(w, [fn |-> "appendAnswerRows", rows |-> Cardinality(TeamIds(w.state))])

syncTotalsToTeamsSheet(w) ==
    Call(w, [fn |-> "updateScoresToSheet", rows |-> Cardinality(TeamIds(w.state))])

\* ----------------------------------------------------------------- game flow
startQuestion(w, index) ==
    LET st1 == [w.state EXCEPT !.phase = "question",
                               !.qIndex = index,
                               !.paused = TRUE,
                               !.accumulatedRunMs = 0,
                               !.startedAtMs = 0,
                               !.questionLogged = FALSE]
        q   == getCurrentQuestionObj(st1)
    IN  [w EXCEPT !.state =
            [st1 EXCEPT !.timeSec = IF q # <<>> THEN q[1].timeSec ELSE defaultTimeSec,
                        !.teams = [id \in DOMAIN @ |->
                                      [@[id] EXCEPT !.lockedChoice = null,
                                                    !.lockedAtRunMs = null,
                                                    !.lastResult = "null",
                                                    !.lastPointsAwarded = 0]]]]

\* a resume that keeps the old running marker
resumeKeepsMarker(w) ==
    IF w.state.phase # "question" \/ ~w.state.paused THEN w
    ELSE [logQuestionIfNeeded(w) EXCEPT !.state.paused = FALSE]

resume(w) ==
    IF w.state.phase # "question" \/ ~w.state.paused THEN w
    ELSE [logQuestionIfNeeded(w) EXCEPT !.state.paused = FALSE,
                                        !.state.startedAtMs = now]

pause(w) ==
    IF w.state.phase # "question" \/ w.state.paused THEN w
    ELSE [w EXCEPT !.state.accumulatedRunMs = @ + (now - w.state.startedAtMs),
                   !.state.startedAtMs = 0,
                   !.state.paused = TRUE]

\* a scoring loop that gives every correct answer the full points
scoreTeamFullPoints(t, q, timeSec) ==
    IF t.lockedChoice = null \/ t.lockedAtRunMs = null
    THEN [t EXCEPT !.lastPointsAwarded = 0, !.lastResult = "wrong"]
    ELSE LET isCorrect == t.lockedChoice = q.correctIndex
             gained    == IF isCorrect THEN maxPoints ELSE 0
         IN  [t EXCEPT !.lastResult = IF isCorrect THEN "correct" ELSE "wrong",
                       !.lastPointsAwarded = gained,
                       !.score = @ + gained]

\* the scoring loop of revealAnswer for one team
scoreTeam(t, q, timeSec) ==
    IF t.lockedChoice = null \/ t.lockedAtRunMs = null
    THEN [t EXCEPT !.lastPointsAwarded = 0, !.lastResult = "wrong"]
    ELSE LET isCorrect == t.lockedChoice = q.correctIndex
             gained    == computeQuestionScore(isCorrect, t.lockedAtRunMs, timeSec)
         IN  [t EXCEPT !.lastResult = IF isCorrect THEN "correct" ELSE "wrong",
                       !.lastPointsAwarded = gained,
                       !.score = @ + gained]

\* a reveal that leaves the run clock running
revealAnswerKeepsRunning(w) ==
    IF w.state.phase # "question" THEN w
    ELSE [w EXCEPT !.state.phase = "revealed"]

\* a reveal that scores and leaves the question open
revealAnswerKeepsPhase(w) ==
    IF w.state.phase # "question" THEN w
    ELSE
    LET st0 == w.state
        st1 == IF ~st0.paused /\ st0.startedAtMs # 0
               THEN [st0 EXCEPT !.accumulatedRunMs = @ + (now - st0.startedAtMs),
                                !.startedAtMs = 0]
               ELSE st0
        st2 == [st1 EXCEPT !.paused = TRUE]
        w2  == [w EXCEPT !.state = st2]
        q   == getCurrentQuestionObj(st2)
    IN  IF q = <<>> THEN w2
        ELSE IF w2.state.manualScoring
             THEN syncTotalsToTeamsSheet(logAnswersNow(w2))
             ELSE logAnswersNow(syncTotalsToTeamsSheet(
                    [w2 EXCEPT !.state.teams =
                        [id \in DOMAIN @ |-> scoreTeam(@[id], q[1], w2.state.timeSec)]]))

revealAnswer(w) ==
    IF w.state.phase # "question" THEN w
    ELSE
    LET st0 == w.state
        st1 == IF ~st0.paused /\ st0.startedAtMs # 0
               THEN [st0 EXCEPT !.accumulatedRunMs = @ + (now - st0.startedAtMs),
                                !.startedAtMs = 0]
               ELSE st0
        st2 == [st1 EXCEPT !.paused = TRUE, !.phase = "revealed"]
        w2  == [w EXCEPT !.state = st2]
        q   == getCurrentQuestionObj(st2)
    IN  IF q = <<>> THEN w2
        ELSE LET w3 == logQuestionIfNeeded(w2)
             IN  IF w3.state.manualScoring
                 THEN syncTotalsToTeamsSheet(logAnswersNow(
                        [w3 EXCEPT !.state.teams =
                            [id \in DOMAIN @ |-> [@[id] EXCEPT !.lastResult = "null",
                                                               !.lastPointsAwarded = 0]]]))
                 ELSE logAnswersNow(syncTotalsToTeamsSheet(
                      logAnswersNow(syncTotalsToTeamsSheet(
                        [w3 EXCEPT !.state.teams =
                            [id \in DOMAIN @ |-> scoreTeam(@[id], q[1], w3.state.timeSec)]]))))

showLeaderboard(w) ==
    IF w.state.phase # "revealed" THEN w
    ELSE [w EXCEPT !.state.phase = "leaderboard", !.state.paused = TRUE]

\* the bound test of nextQuestion off by one
nextQuestionOffByOne(w) ==
    IF w.state.qIndex >= Len(w.state.gameQuestions)
    THEN [w EXCEPT !.state.phase = "finished", !.state.paused = TRUE]
    ELSE startQuestion(w, w.state.qIndex + 1)

nextQuestion(w) ==
    LET total == Len(w.state.gameQuestions)
    IN  IF w.state.qIndex >= total - 1
        THEN [w EXCEPT !.state.phase = "finished", !.state.paused = TRUE]
        ELSE startQuestion(w, w.state.qIndex + 1)

\* a timer callback that does not look at the pause flag
tickIgnoresPause(w) ==
    IF w.state.phase # "question" THEN w
    ELSE IF getRemainingSec([w.state EXCEPT !.paused = FALSE]) <= 0
         THEN broadcast(revealAnswer(w))
    ELSE w

\* the setInterval callback
tick(w) ==
    IF w.state.phase # "question" THEN w
    ELSE IF w.state.paused THEN w
    ELSE IF getRemainingSec(w.state) <= 0 THEN broadcast(revealAnswer(w))
    ELSE w

\* ------------------------------------------------------------ JS payloads
JsNumber(n)     == [kind |-> "number", n |-> n]
JsNumString(n)  == [kind |-> "numericString", n |-> n]     \* "2"
JsNull          == [kind |-> "null", n |-> 0]
JsUndefined     == [kind |-> "undefined", n |-> 0]
JsEmptyString   == [kind |-> "emptyString", n |-> 0]        \* ""
JsText          == [kind |-> "text", n |-> 0]               \* "abc"

\* Number(v): <<n>> for a finite number, <<>> for NaN
Number(v) ==
    CASE v.kind = "number"        -> <<v.n>>
      [] v.kind = "numericString" -> <<v.n>>
      [] v.kind = "null"          -> <<0>>
      [] v.kind = "emptyString"   -> <<0>>
      [] OTHER                    -> <<>>

LockPayloads  == { JsNumber(0), JsNumber(1), JsNumber(4), JsNumber(-1),
                   JsNumString(1), JsNull, JsEmptyString, JsText, JsUndefined }
DeltaPayloads == { JsNumber(-1), JsText }

\* lockAnswer without its already-locked test
lockAnswerRelocks(w, s, choiceIndex) ==
    IF s \notin DOMAIN w.state.teams THEN w
    ELSE IF w.state.phase # "question" THEN w
    ELSE IF w.state.paused THEN w
    ELSE LET idx == Number(choiceIndex)
         IN  IF idx = <<>> \/ idx[1] \notin {0, 1, 2, 3} THEN w
             ELSE broadcast([w EXCEPT !.state.teams[s].lockedChoice = idx[1],
                                      !.state.teams[s].lockedAtRunMs =
                                          getRunElapsedMs(w.state)])

lockAnswer(w, s, choiceIndex) ==
    IF s \notin DOMAIN w.state.teams THEN w
    ELSE IF w.state.phase # "question" THEN w
    ELSE IF w.state.paused THEN w
    ELSE IF w.state.teams[s].lockedChoice # null THEN w
    ELSE LET idx == Number(choiceIndex)
         IN  IF idx = <<>> \/ idx[1] \notin {0, 1, 2, 3} THEN w
             ELSE broadcast([w EXCEPT !.state.teams[s].lockedChoice = idx[1],
                                      !.state.teams[s].lockedAtRunMs =
                                          getRunElapsedMs(w.state)])

\* ------------------------------------------------------------ host controls
\* a flag of hostSetShuffle: "true", "false", or "other" for a non-boolean
FlagInputs == {"true", "false", "other"}

hostSetShuffle(w, s, shuffleQuestions, shuffleChoices) ==
    IF ~isHost(w, s) THEN w
    ELSE broadcast(
           [w EXCEPT !.state.shuffleQuestions =
                         IF shuffleQuestions = "other" THEN @ ELSE shuffleQuestions = "true",
                     !.state.shuffleChoices =
                         IF shuffleChoices = "other" THEN @ ELSE shuffleChoices = "true"])

\* val is the truthiness of the payload
hostSetManualScoring(w, s, val) ==
    IF ~isHost(w, s) THEN w
    ELSE broadcast([w EXCEPT !.state.manualScoring = val])

hostAdjustScore(w, s, teamId, delta) ==
    IF ~isHost(w, s) THEN w
    ELSE IF teamId \notin DOMAIN w.state.teams THEN w
    ELSE LET d == Number(delta)
         IN  IF d = <<>> THEN w
             ELSE syncTotalsToTeamsSheet(
                    broadcast([w EXCEPT !.state.teams[teamId].score = @ + d[1]]))

\* gq is the question run buildGameQuestions returned
hostStart(w, s, gq) ==
    IF ~isHost(w, s) THEN w
    ELSE IF Len(QUESTION_BANK) = 0 THEN Emit(w, s, "hostError")
    ELSE broadcast(startQuestion([w EXCEPT !.state.gameQuestions = gq], 0))

hostPauseToggle(w, s) ==
    IF ~isHost(w, s) THEN w
    ELSE IF w.state.phase # "question" THEN w
    ELSE broadcast(IF w.state.paused THEN resume(w) ELSE pause(w))

hostReveal(w, s) ==
    IF ~isHost(w, s) THEN w
    ELSE IF w.state.phase # "question" THEN w
    ELSE broadcast(revealAnswer(w))

hostNext(w, s) ==
    IF ~isHost(w, s) THEN w
    ELSE IF w.state.phase = "revealed" THEN broadcast(showLeaderboard(w))
    ELSE IF w.state.phase = "leaderboard" THEN broadcast(nextQuestion(w))
    ELSE w

\* ------------------------------------------------------------------ actions
ScoresBounded(st) ==
    \A id \in DOMAIN st.teams : st.teams[id].score \in -1..MaxScore

\* Whether the handler did anything at all: an event the server ignores
\* silently changes nothing and is a stuttering step.
Silent(w) ==
    /\ w.state = state
    /\ w.pendingTakeovers = pendingTakeovers
    /\ w.sockets = sockets
    /\ w.emitted = {}
    /\ w.calls = <<>>

\* The takeover requests the handler ended: removed, or replaced by another
\* requester's.
EndedRequests(w) ==
    { p \in DOMAIN pendingTakeovers :
        p \notin DOMAIN w.pendingTakeovers \/ w.pendingTakeovers[p] # pendingTakeovers[p] }

\* The handler of event `op`, sent by connection `by` with argument `arg`, ran
\* to completion and left world w; emitted, calls and lastEvent describe the
\* last event that was not ignored.
Commit(op, by, arg, w) ==
    IF Silent(w) THEN UNCHANGED vars
    ELSE /\ ScoresBounded(w.state)
         /\ state' = w.state
         /\ pendingTakeovers' = w.pendingTakeovers
         /\ sockets' = w.sockets
         /\ emitted' = w.emitted
         /\ calls' = w.calls
         /\ lastEvent' = [op |-> op, by |-> by, arg |-> arg,
                          prePhase |-> state.phase, ended |-> EndedRequests(w)]
         /\ UNCHANGED <<now, QUESTION_BANK, scoreProbe>>

\* io.on("connection"): a new client, while fewer than `limit` are connected;
\* the server sends it the public state.  Ids are interchangeable, so the new
\* connection takes the lowest id that is free.
Connect(limit) ==
    /\ Cardinality(sockets) < limit
    /\ \E s \in Sockets \ sockets :
        /\ \A x \in Sockets \ sockets : s <= x
        /\ Commit("connection", s, null,
                  Emit([World EXCEPT !.sockets = @ \cup {s}], s, "state"))

\* the client went away
Disconnect ==
    \E s \in sockets : Commit("disconnect", s, null, socketDisconnect(World, s))

RegisterHost ==
    \E s \in sockets : Commit("registerHost", s, null, registerHost(World, s))

RegisterProjector ==
    \E s \in sockets : Commit("registerProjector", s, null, registerProjector(World, s))

JoinTeam ==
    \E s \in sockets, pin \in PinInputs : Commit("joinTeam", s, pin, joinTeam(World, s, pin))

HostKickTeamById ==
    \E s \in sockets, teamId \in Sockets :
        Commit("hostKickTeam", s, teamId, hostKickTeam(World, s, teamId, null))

HostKickTeamByPin ==
    \E s \in sockets, pin \in PinInputs :
        Commit("hostKickTeam", s, pin, hostKickTeam(World, s, null, IF pin = 0 THEN null ELSE pin))

HostApproveTakeover ==
    \E s \in sockets, pin \in PinInputs :
        Commit("hostApproveTakeover", s, pin, hostApproveTakeover(World, s, pin))

HostDenyTakeover ==
    \E s \in sockets, pin \in PinInputs :
        Commit("hostDenyTakeover", s, pin, hostDenyTakeover(World, s, pin))

LockAnswer ==
    \E s \in sockets, v \in LockPayloads :
        Commit("lockAnswer", s, null, lockAnswer(World, s, v))

HostReset ==
    \E s \in sockets : Commit("hostReset", s, null, hostReset(World, s))

HostSetShuffle ==
    \E s \in sockets, fq \in FlagInputs, fc \in FlagInputs :
        Commit("hostSetShuffle", s, null, hostSetShuffle(World, s, fq, fc))

HostSetManualScoring ==
    \E s \in sockets, val \in BOOLEAN :
        Commit("hostSetManualScoring", s, null, hostSetManualScoring(World, s, val))

HostAdjustScore ==
    \E s \in sockets, teamId \in Sockets, delta \in DeltaPayloads :
        Commit("hostAdjustScore", s, teamId, hostAdjustScore(World, s, teamId, delta))

HostStart ==
    \E s \in sockets :
        \E gq \in buildGameQuestions(state.shuffleQuestions, state.shuffleChoices) :
            Commit("hostStart", s, null, hostStart(World, s, gq))

HostPauseToggle ==
    \E s \in sockets : Commit("hostPauseToggle", s, null, hostPauseToggle(World, s))

HostReveal ==
    \E s \in sockets : Commit("hostReveal", s, null, hostReveal(World, s))

HostNext ==
    \E s \in sockets : Commit("hostNext", s, null, hostNext(World, s))

Tick == \E by \in {null} : Commit("tick", by, null, tick(World))

\* Wall-clock time passes between two events.  Date.now() is read only by
\* resume, pause, revealAnswer and getRunElapsedMs, all of them in phase
\* question, so the clock is advanced in that phase only.
AdvanceClock ==
    /\ state.phase = "question"
    /\ now + StepMs <= MaxNow * StepMs
    /\ now' = now + StepMs
    /\ emitted' = {}
    /\ calls' = <<>>
    /\ lastEvent' = [op |-> "clock", by |-> null, arg |-> null,
                     prePhase |-> state.phase, ended |-> {}]
    /\ UNCHANGED <<state, pendingTakeovers, sockets, QUESTION_BANK, scoreProbe>>

\* No call of computeQuestionScore is being looked at.
NoProbe == [isCorrect |-> FALSE, lockedAtRunMs |-> null, timeSec |-> null, result |-> null]

\* The server after bootstrap with the Questions sheet `bank` loaded.
Boot(bank) ==
    /\ state = resetState
    /\ pendingTakeovers = EmptyMap
    /\ sockets = {}
    /\ now = StepMs
    /\ QUESTION_BANK = bank
    /\ emitted = {}
    /\ calls = <<>>
    /\ lastEvent = [op |-> "boot", by |-> null, arg |-> null,
                    prePhase |-> "lobby", ended |-> {}]
    /\ scoreProbe = NoProbe

Init == \E bank \in Banks : Boot(bank)

\* every event of the server
Next ==
    \/ Connect(NumSockets)
    \/ Disconnect
    \/ RegisterHost
    \/ RegisterProjector
    \/ JoinTeam
    \/ HostKickTeamById
    \/ HostKickTeamByPin
    \/ HostApproveTakeover
    \/ HostDenyTakeover
    \/ LockAnswer
    \/ HostReset
    \/ HostSetShuffle
    \/ HostSetManualScoring
    \/ HostAdjustScore
    \/ HostStart
    \/ HostPauseToggle
    \/ HostReveal
    \/ HostNext
    \/ Tick
    \/ AdvanceClock

Spec == Init /\ [][Next]_vars

\* Identity arbitration: the events that read or write state.teams' keys and
\* pins, state.claimedPins, pendingTakeovers and the connection table, with
\* hostAdjustScore to give the teams different scores.
NextArbitration ==
    \/ Connect(NumSockets)
    \/ Disconnect
    \/ RegisterHost
    \/ JoinTeam
    \/ HostKickTeamById
    \/ HostKickTeamByPin
    \/ HostApproveTakeover
    \/ HostDenyTakeover
    \/ HostReset
    \/ HostAdjustScore

SpecArbitration == Boot(<<>>) /\ [][NextArbitration]_vars

\* The game run from one device: a single connection at a time, which
\* registers as host and joins as a team; the events of the game flow, with
\* the default shuffle settings.
SoloConnect == sockets = {} /\ Connect(NumSockets)

NextGame ==
    \/ SoloConnect
    \/ Disconnect
    \/ RegisterHost
    \/ JoinTeam
    \/ LockAnswer
    \/ HostReset
    \/ HostSetManualScoring
    \/ HostStart
    \/ HostPauseToggle
    \/ HostReveal
    \/ HostNext
    \/ Tick
    \/ AdvanceClock

SpecGame == Init /\ [][NextGame]_vars

StartGame == state.phase = "lobby" /\ HostStart

\* The step of Tick that is not a stuttering step: the timer callback finds a
\* running question whose time has run out and reveals it.  Only Tick writes a
\* lastEvent of "tick", so the steps of TickFires are those steps of Tick, and
\* TickFires is enabled exactly when such a step is (TickFiresIsTick).  The
\* first disjunct, a reveal that scores nothing, is one case of the second: it
\* names a successor outright, so that ENABLED TickFires is decided by the
\* guard without computing the reveal.
TickFires ==
    /\ state.phase = "question"
    /\ ~state.paused
    /\ getRemainingSec(state) <= 0
    /\ lastEvent' = [op |-> "tick", by |-> null, arg |-> null,
                     prePhase |-> "question", ended |-> {}]
    /\ \/ /\ state' = [state EXCEPT !.phase = "revealed", !.paused = TRUE]
          /\ UNCHANGED <<pendingTakeovers, sockets, now, QUESTION_BANK, emitted, calls,
                         scoreProbe>>
       \/ state'.phase = "revealed"

\* The single-device game in which the host starts the game from the lobby
\* only; setInterval runs the timer callback every 200 ms for ever, and time
\* passes as long as the model's clock can count.
NextAutoReveal ==
    \/ SoloConnect
    \/ Disconnect
    \/ RegisterHost
    \/ JoinTeam
    \/ LockAnswer
    \/ HostReset
    \/ HostSetManualScoring
    \/ StartGame
    \/ HostPauseToggle
    \/ HostReveal
    \/ HostNext
    \/ Tick
    \/ AdvanceClock

SpecAutoReveal ==
    Init /\ [][NextAutoReveal]_vars /\ WF_vars(TickFires) /\ WF_vars(AdvanceClock)

TickFiresIsTick ==
    /\ [][TickFires <=> Tick]_vars
    /\ []((state.phase = "question" /\ ~state.paused /\ getRemainingSec(state) <= 0)
            => ~Silent(tick(World)) /\ ScoresBounded(tick(World).state))

\* as many devices at a time as the sheet has teams
TeamConnect == Connect(Cardinality(TEAM_REGISTRY))

\* The host's commands among the devices of the teams: identity arbitration
\* together with the game flow commands, the game started from the lobby,
\* without answers and with the clock standing still.
NextHostOnly ==
    \/ TeamConnect
    \/ Disconnect
    \/ RegisterHost
    \/ JoinTeam
    \/ HostKickTeamById
    \/ HostKickTeamByPin
    \/ HostApproveTakeover
    \/ HostDenyTakeover
    \/ HostReset
    \/ StartGame
    \/ HostPauseToggle
    \/ HostReveal
    \/ HostNext

SpecHostOnly == Boot(Banks_Loaded) /\ [][NextHostOnly]_vars

\* computeQuestionScore on its own: the arguments of one call are drawn from
\* LockTimes and Budgets (null: not a finite number), and the call is made.
LockTimes == { 0, 1, 3000, 3999, 4000, 4001, 4999, 5000, 5001, 7000, 7001,
               22999, 23000, 23001, 24000, 24001, 30000 }
Budgets   == { 1, 2, 5, 20, 30 }

InitScore ==
    /\ state = resetState
    /\ pendingTakeovers = EmptyMap
    /\ sockets = {}
    /\ now = StepMs
    /\ QUESTION_BANK = <<>>
    /\ emitted = {}
    /\ calls = <<>>
    /\ lastEvent = [op |-> "boot", by |-> null, arg |-> null,
                    prePhase |-> "lobby", ended |-> {}]
    /\ \E c \in BOOLEAN, ms \in LockTimes \cup {null}, t \in Budgets \cup {null} :
          scoreProbe = [isCorrect |-> c, lockedAtRunMs |-> ms, timeSec |-> t,
                        result |-> null]

ComputeScore ==
    /\ scoreProbe.result = null
    /\ scoreProbe' = [scoreProbe EXCEPT !.result =
                          computeQuestionScore(scoreProbe.isCorrect,
                                               scoreProbe.lockedAtRunMs,
                                               scoreProbe.timeSec)]
    /\ UNCHANGED <<state, pendingTakeovers, sockets, now, QUESTION_BANK, emitted, calls,
                   lastEvent>>

NextScore == ComputeScore

SpecScore == InitScore /\ [][NextScore]_vars

\* The game played by the teams of the sheet, one device each: device s
\* enters the code of team s, nobody leaves, a device registers as host when
\* there is no host, and the host chooses the scoring mode in the lobby and
\* starts the game from the lobby.
HostRegisters == state.hostId = null /\ RegisterHost

SetScoringMode == state.phase = "lobby" /\ HostSetManualScoring

JoinOwnTeam ==
    \E s \in sockets \cap Pins : Commit("joinTeam", s, s, joinTeam(World, s, s))

NextTeams ==
    \/ TeamConnect
    \/ HostRegisters
    \/ JoinOwnTeam
    \/ LockAnswer
    \/ HostReset
    \/ SetScoringMode
    \/ StartGame
    \/ HostPauseToggle
    \/ HostReveal
    \/ HostNext
    \/ Tick
    \/ AdvanceClock

SpecTeams == Boot(Banks_Loaded) /\ [][NextTeams]_vars

\* The game during which devices come and go: the devices of the teams join,
\* ask for codes that are taken and leave, the host approves requests, and
\* the teams answer the questions the host starts, runs and reveals; the
\* wall clock stands still.
NextTakeover ==
    \/ TeamConnect
    \/ Disconnect
    \/ RegisterHost
    \/ JoinTeam
    \/ HostApproveTakeover
    \/ LockAnswer
    \/ StartGame
    \/ HostPauseToggle
    \/ HostReveal

SpecTakeover == Boot(Banks_Loaded) /\ [][NextTakeover]_vars

\* =================================================================== claims

Holders(p) == TeamsWithPin(state, p)

\* C1: a team code is in claimedPins if and only if exactly one Team of
\* state.teams has that code, in every reachable state.
C1_ClaimedIffHeld ==
    \A p \in Pins : (p \in state.claimedPins) <=> (Cardinality(Holders(p)) = 1)

\* C2: no two Teams ever hold the same code, neither between two events nor
\* inside hostApproveTakeover: once its eviction step is done no Team holds
\* the approved code and the prior holder's connection is closed, and only
\* then is the requester's Team created.
C2_OneTeamPerCode ==
    /\ \A p \in Pins : Cardinality(Holders(p)) <= 1
    /\ \A p \in DOMAIN pendingTakeovers :
          LET mid == approveEvict(World, p)
              end == approveJoin(mid, p, pendingTakeovers[p], pendingTakeovers[p] \in sockets)
          IN  /\ TeamsWithPin(mid.state, p) = {}
              /\ \A h \in Holders(p) : h \notin mid.sockets
              /\ \A q \in Pins : Cardinality(TeamsWithPin(mid.state, q)) <= 1
              /\ \A q \in Pins : Cardinality(TeamsWithPin(end.state, q)) <= 1

\* C2 witness: an approval has evicted a holder and seated the requester.
C2_Witness ==
    /\ lastEvent.op = "hostApproveTakeover"
    /\ \E k, a \in emitted :
          /\ k.ev = "kicked" /\ k.to \notin sockets /\ k.to \notin DOMAIN state.teams
          /\ a.ev = "takeoverApproved" /\ a.to \in DOMAIN state.teams
          /\ state.teams[a.to].pin = lastEvent.arg

\* C3: a takeover request and its denial leave state.teams and claimedPins as
\* they were, hostDenyTakeover sends takeoverDenied to the requester only, and
\* a Team leaves state.teams (or changes code) only in its own disconnect, a
\* host kick, a host approval or a reset.
C3_RequestAndDenialKeepHolder ==
    [][ /\ ( \/ lastEvent'.op = "hostDenyTakeover"
             \/ (lastEvent'.op = "joinTeam" /\ lastEvent'.arg \in state.claimedPins) )
           => /\ state'.teams = state.teams
              /\ state'.claimedPins = state.claimedPins
        /\ lastEvent'.op = "hostDenyTakeover"
           => /\ lastEvent'.arg \in DOMAIN pendingTakeovers
              /\ \A m \in emitted' :
                    m.ev = "takeoverDenied" => m.to = pendingTakeovers[lastEvent'.arg]
              /\ pendingTakeovers[lastEvent'.arg] \notin Holders(lastEvent'.arg)
        /\ \A id \in DOMAIN state.teams :
              (id \notin DOMAIN state'.teams \/ state'.teams[id].pin # state.teams[id].pin)
              => \/ lastEvent'.op = "disconnect" /\ lastEvent'.by = id
                 \/ lastEvent'.op \in {"hostKickTeam", "hostApproveTakeover", "hostReset"}
      ]_vars

\* C3 witness: a denial was delivered to a requester while a Team with a
\* host-adjusted score holds the code it asked for.
C3_Witness ==
    /\ lastEvent.op = "hostDenyTakeover"
    /\ \E m \in emitted : m.ev = "takeoverDenied" /\ m.to \notin DOMAIN state.teams
    /\ \E id \in DOMAIN state.teams :
          state.teams[id].pin = lastEvent.arg /\ state.teams[id].score # 0

\* C4: hostApproveTakeover(p) by the host, with a request for p pending,
\* removes the holder's Team and closes its connection; then the requester, if
\* still connected, is the only holder of p, and otherwise p is unclaimed; no
\* request for p stays pending.
C4_ApproveTakeoverEffect ==
    \A p \in DOMAIN pendingTakeovers :
        state.hostId # null =>
            LET r == pendingTakeovers[p]
                w == hostApproveTakeover(World, state.hostId, p)
            IN  /\ \A h \in Holders(p) :
                      h \notin w.sockets /\ h \notin DOMAIN w.state.teams
                /\ IF r \in sockets
                   THEN /\ TeamsWithPin(w.state, p) = {r}
                        /\ p \in w.state.claimedPins
                   ELSE /\ TeamsWithPin(w.state, p) = {}
                        /\ p \notin w.state.claimedPins
                /\ p \notin DOMAIN w.pendingTakeovers

\* C4 witness: the host approved a request whose code had a holder; the
\* requester now holds the code and the request is gone.
C4_Witness ==
    /\ lastEvent.op = "hostApproveTakeover"
    /\ lastEvent.arg \in lastEvent.ended
    /\ lastEvent.arg \notin DOMAIN pendingTakeovers
    /\ \E k \in emitted : k.ev = "kicked"
    /\ \E r \in sockets : Holders(lastEvent.arg) = {r}

\* The request (p, r) pending before a step is gone, or replaced, after it.
RequestEnded(p) ==
    p \notin DOMAIN pendingTakeovers' \/ pendingTakeovers'[p] # pendingTakeovers[p]

\* C5 as claimed: a pending takeover request ends only in a host approval or
\* denial of its code, or when its requester's connection goes away.
C5_EndsOnlyByDecisionOrRequesterLeaving ==
    [][ \A p \in DOMAIN pendingTakeovers :
            RequestEnded(p) =>
                \/ lastEvent'.op \in {"hostApproveTakeover", "hostDenyTakeover"}
                   /\ lastEvent'.arg = p
                \/ pendingTakeovers[p] \notin sockets'
      ]_vars

\* C5 as amended: a pending takeover request ends only in a host approval or
\* denial of its code, when its requester's connection goes away, when the
\* holder of its code disconnects or is kicked by the host, in a hostReset, or
\* when another connection's request for the same code replaces it.
C5_EndsOnlyByListedEvents ==
    [][ \A p \in DOMAIN pendingTakeovers :
            RequestEnded(p) =>
                \/ lastEvent'.op \in {"hostApproveTakeover", "hostDenyTakeover"}
                   /\ lastEvent'.arg = p
                \/ pendingTakeovers[p] \notin sockets'
                \/ /\ lastEvent'.op \in {"disconnect", "hostKickTeam"}
                   /\ \E h \in Holders(p) : h \notin sockets'
                \/ lastEvent'.op = "hostReset"
                \/ /\ lastEvent'.op = "joinTeam" /\ lastEvent'.arg = p
                   /\ p \in DOMAIN pendingTakeovers'
                   /\ pendingTakeovers'[p] = lastEvent'.by
      ]_vars

\* C5 witness: a host kick of the holder ended a request whose requester is
\* still connected.
C5_Witness ==
    /\ lastEvent.op = "hostKickTeam"
    /\ lastEvent.ended # {}
    /\ \E r \in sockets : r \notin DOMAIN state.teams /\ r # state.hostId

\* ------------------------------------------------------------ game flow claims
Phases == {"lobby", "question", "revealed", "leaderboard", "finished"}

\* C6: in every reachable state phase is one of lobby, question, revealed,
\* leaderboard, finished, and paused is true whenever phase is not question.
C6_PhaseAndPaused ==
    /\ state.phase \in Phases
    /\ state.phase # "question" => state.paused = TRUE

\* The timer ran out on a running question and the tick revealed the answer.
C6_Witness ==
    /\ lastEvent.op = "tick"
    /\ lastEvent.prePhase = "question"
    /\ state.phase = "revealed"
    /\ state.paused

\* the answer state of every team
AnswerState(st) ==
    [id \in DOMAIN st.teams |->
        [lockedChoice      |-> st.teams[id].lockedChoice,
         lockedAtRunMs     |-> st.teams[id].lockedAtRunMs,
         lastResult        |-> st.teams[id].lastResult,
         lastPointsAwarded |-> st.teams[id].lastPointsAwarded]]

\* C7: hostStart issued by the host in phase question, revealed, leaderboard
\* or finished leaves phase, qIndex, the question run and every team's answer
\* state unchanged.
C7_StartOnlyFromLobby ==
    [][ (lastEvent'.op = "hostStart" /\ state.phase # "lobby")
        => /\ state'.phase = state.phase
           /\ state'.qIndex = state.qIndex
           /\ state'.gameQuestions = state.gameQuestions
           /\ AnswerState(state') = AnswerState(state) ]_vars

\* C8: once phase is finished it stays finished under every event except
\* hostReset.
C8_FinishedUntilReset ==
    [][ (state.phase = "finished" /\ lastEvent'.op # "hostReset")
        => state'.phase = "finished" ]_vars

\* hostStart is the only event besides hostReset that leaves finished.
C8_FinishedUntilResetOrStart ==
    [][ (state.phase = "finished" /\ lastEvent'.op \notin {"hostReset", "hostStart"})
        => state'.phase = "finished" ]_vars

\* C9: hostNext in phase leaderboard moves to finished when qIndex is the last
\* index of the question run, and otherwise enters question at qIndex+1
\* paused, with the run clock zeroed and all teams' answer state cleared; and
\* 0 <= qIndex < number of questions holds in every non-lobby state.
C9_NextStep ==
    (lastEvent'.op = "hostNext" /\ state.phase = "leaderboard")
    => IF state.qIndex = Len(state.gameQuestions) - 1
       THEN state'.phase = "finished"
       ELSE /\ state'.phase = "question"
            /\ state'.qIndex = state.qIndex + 1
            /\ state'.paused = TRUE
            /\ state'.accumulatedRunMs = 0
            /\ state'.startedAtMs = 0
            /\ \A id \in DOMAIN state'.teams :
                  /\ state'.teams[id].lockedChoice = null
                  /\ state'.teams[id].lockedAtRunMs = null
                  /\ state'.teams[id].lastResult = "null"
                  /\ state'.teams[id].lastPointsAwarded = 0

C9_NextAdvancesOrFinishes ==
    /\ [](state.phase # "lobby"
          => state.qIndex >= 0 /\ state.qIndex < Len(state.gameQuestions))
    /\ [][C9_NextStep]_vars

\* hostNext left the leaderboard of the first question for the second
\* question, with a team that had answered and scored on the first.
C9_Witness ==
    /\ lastEvent.op = "hostNext"
    /\ lastEvent.prePhase = "leaderboard"
    /\ state.phase = "question"
    /\ state.qIndex = 1
    /\ \E id \in DOMAIN state.teams :
          state.teams[id].score > 0 /\ state.teams[id].lockedChoice = null

\* C10: when a team has already locked an answer for the current question,
\* every further lockAnswer from that team, with any choice value and at any
\* later elapsed time, is a no-op: no lockAnswer event changes a lock, and a
\* lockAnswer of a locked team is ignored.
C10_LockStep ==
    lastEvent'.op = "lockAnswer"
    => \A id \in DOMAIN state.teams :
          state.teams[id].lockedChoice # null
          => /\ id \in DOMAIN state'.teams
             /\ state'.teams[id].lockedChoice = state.teams[id].lockedChoice
             /\ state'.teams[id].lockedAtRunMs = state.teams[id].lockedAtRunMs

C10_SecondLockIsNoOp ==
    /\ [](\A id \in DOMAIN state.teams, v \in LockPayloads :
            state.teams[id].lockedChoice # null => Silent(lockAnswer(World, id, v)))
    /\ [][C10_LockStep]_vars

\* A team locked, the question is still running, and time has passed since
\* the lock.
C10_Witness ==
    /\ state.phase = "question"
    /\ ~state.paused
    /\ lastEvent.op = "clock"
    /\ \E id \in DOMAIN state.teams :
          /\ id \in sockets
          /\ state.teams[id].lockedChoice # null
          /\ getRunElapsedMs(state) > state.teams[id].lockedAtRunMs

\* ------------------------------------------------------ answers and scoring
\* C11: lockAnswer changes state only when phase is question, the clock is not
\* paused, the caller holds a Team with no lock and the submitted choiceIndex
\* is one of 0, 1, 2, 3 (a number, or a string that spells one); for every
\* other payload and situation it is ignored.
C11_LockOnlyValidChoice ==
    \A s \in sockets, v \in LockPayloads :
        ~Silent(lockAnswer(World, s, v))
        => /\ state.phase = "question"
           /\ ~state.paused
           /\ s \in DOMAIN state.teams
           /\ state.teams[s].lockedChoice = null
           /\ v.kind \in {"number", "numericString"}
           /\ v.n \in {0, 1, 2, 3}

\* a step in which the answer of the running question is revealed
RevealStep ==
    /\ lastEvent'.op \in {"hostReveal", "tick"}
    /\ state.phase = "question"
    /\ state'.phase = "revealed"

\* what revealAnswer does to team id
C12_TeamScored(id) ==
    LET t  == state.teams[id]
        t2 == state'.teams[id]
        q  == getCurrentQuestionObj(state)[1]
    IN  IF state.manualScoring THEN t2.score = t.score
        ELSE IF t.lockedChoice = null
        THEN t2.lastResult = "wrong" /\ t2.lastPointsAwarded = 0 /\ t2.score = t.score
        ELSE LET isCorrect == t.lockedChoice = q.correctIndex
                 gained    == computeQuestionScore(isCorrect, t.lockedAtRunMs, state.timeSec)
             IN  /\ t2.lastResult = (IF isCorrect THEN "correct" ELSE "wrong")
                 /\ t2.lastPointsAwarded = gained
                 /\ t2.score = t.score + gained
                 /\ t2.lockedAtRunMs = t.lockedAtRunMs

\* a lock records the elapsed run time of the moment of the lock
C12_LockCapturesElapsed ==
    lastEvent'.op = "lockAnswer"
    => \A id \in DOMAIN state'.teams :
          (id \in DOMAIN state.teams /\ state.teams[id].lockedChoice = null
             /\ state'.teams[id].lockedChoice # null)
          => state'.teams[id].lockedAtRunMs = getRunElapsedMs(state)

\* C12: reveal from phase question, for every team present: with manual
\* scoring no score changes; otherwise a team without a lock gets wrong and 0
\* points, and a team with a lock gets correct iff its choice is the correct
\* index and gains exactly computeQuestionScore of the elapsed time captured
\* when it locked.
C12_RevealScoring ==
    /\ [][ RevealStep => /\ DOMAIN state'.teams = DOMAIN state.teams
                         /\ \A id \in DOMAIN state.teams : C12_TeamScored(id) ]_vars
    /\ [][ C12_LockCapturesElapsed ]_vars

\* Two teams after a reveal in automatic mode: one did not answer, the other
\* locked the correct choice within the grace period and got the full points
\* although the reveal came after the grace period.
C12_Witness ==
    /\ lastEvent.op \in {"hostReveal", "tick"}
    /\ state.phase = "revealed"
    /\ ~state.manualScoring
    /\ state.accumulatedRunMs > graceSec * 1000
    /\ \E a, b \in DOMAIN state.teams :
          /\ state.teams[a].lockedChoice # null
          /\ state.teams[a].lockedAtRunMs < state.accumulatedRunMs
          /\ state.teams[a].lastResult = "correct"
          /\ state.teams[a].lastPointsAwarded = maxPoints
          /\ state.teams[b].lockedChoice = null
          /\ state.teams[b].lastResult = "wrong"
          /\ state.teams[b].lastPointsAwarded = 0

\* the score the claim states for a correct answer locked at ms: 20 up to
\* 4000 ms, then max(0, 20 - k) where k = ceil(ms/1000 - 4), the whole number
\* with (k-1)*1000 < ms - 4000 <= k*1000
C13_Expected(ms, r) ==
    IF ms <= 4000 THEN r = 20
    ELSE \E k \in 1..ms :
            /\ (k - 1) * 1000 < ms - 4000
            /\ ms - 4000 <= k * 1000
            /\ r = (IF 20 - k >= 0 THEN 20 - k ELSE 0)

\* C13: computeQuestionScore returns 0 when isCorrect is false; when correct
\* 20 for lockedAtRunMs <= 4000 and max(0, 20 - ceil(lockedAtRunMs/1000 - 4))
\* above; the result is the same for every time budget and non-increasing in
\* lockedAtRunMs (3000 ms -> 20, 7000 ms -> 17).
C13_ScoreFormula ==
    (scoreProbe.result # null /\ scoreProbe.lockedAtRunMs # null)
    => LET c  == scoreProbe.isCorrect
           ms == scoreProbe.lockedAtRunMs
           r  == scoreProbe.result
       IN  /\ ~c => r = 0
           /\ c => C13_Expected(ms, r)
           /\ \A t \in Budgets \cup {null} : computeQuestionScore(c, ms, t) = r
           /\ \A later \in LockTimes, t \in Budgets \cup {null} :
                 later >= ms => computeQuestionScore(c, later, t) <= r
           /\ (c /\ ms = 3000) => r = 20
           /\ (c /\ ms = 7000) => r = 17

\* A correct answer locked one millisecond into the fourth late second, under
\* a budget of 5 seconds, was scored 16.
C13_Witness ==
    /\ scoreProbe.isCorrect
    /\ scoreProbe.lockedAtRunMs = 7001
    /\ scoreProbe.timeSec = 5
    /\ scoreProbe.result = 16

\* ------------------------------------------------------------ the run clock
\* a step within one question: the question was not (re)started by the step
SameQuestion ==
    /\ state.phase = "question"
    /\ state'.phase = "question"
    /\ lastEvent'.op # "hostStart"

\* C14: within one question getRunElapsedMs() grows by exactly the wall-clock
\* time that passes while the question runs and by nothing else: a pause, a
\* resume and time passing while paused leave it as it is, so its value just
\* after a resume is its value just before the matching pause.
C14_ElapsedIsRunningTime ==
    [][ SameQuestion
        => getRunElapsedMs(state)' =
              getRunElapsedMs(state) + (IF state.paused THEN 0 ELSE now' - now) ]_vars

\* A question was resumed for the second time, after running for a while and
\* then staying paused for a while.
C14_Witness ==
    /\ lastEvent.op = "hostPauseToggle"
    /\ state.phase = "question"
    /\ ~state.paused
    /\ state.accumulatedRunMs > 0
    /\ state.startedAtMs = now
    /\ now - StepMs > state.accumulatedRunMs

\* ------------------------------------------------------------- auto-reveal
Running == state.phase = "question" /\ ~state.paused
Expired == Running /\ getRemainingSec(state) <= 0
ClockStopped == now + StepMs > MaxNow * StepMs

\* what a tick does in the current state
C15_TickEffect ==
    /\ state.phase = "question"
       => /\ getRemainingSec(state) >= 0
          /\ getRemainingSec(state) <= 0
                <=> getRunElapsedMs(state) >= state.timeSec * 1000
    /\ IF Expired
       THEN /\ tick(World).state = revealAnswer(World).state
            /\ tick(World).calls = revealAnswer(World).calls
            /\ tick(World).state.phase = "revealed"
            /\ state.hostId \in sockets
                  => tick(World) = hostReveal(World, state.hostId)
       ELSE Silent(tick(World))

\* C15: a tick that finds phase question, not paused and remaining seconds
\* <= 0 (exactly when the elapsed run time has reached the budget; the
\* remaining value is never negative) does what an explicit reveal does; any
\* other tick changes nothing; and under fair ticks a question left running
\* is eventually revealed (as long as the clock of the model can advance).
C15_AutoReveal ==
    /\ []C15_TickEffect
    /\ Expired ~> (state.phase = "revealed" \/ state.paused \/ state.phase = "lobby")
    /\ Running ~> (state.phase = "revealed" \/ state.paused \/ state.phase = "lobby"
                    \/ (ClockStopped /\ ~Expired))

\* The timer revealed a question whose time had run out and scored a team.
C15_Witness ==
    /\ lastEvent.op = "tick"
    /\ lastEvent.prePhase = "question"
    /\ state.phase = "revealed"
    /\ state.accumulatedRunMs >= state.timeSec * 1000
    /\ \E id \in DOMAIN state.teams : state.teams[id].lastPointsAwarded > 0

\* ------------------------------------------------------------ host commands
\* every host-only command connection s can send, with every argument
HostCommandsIgnored(s) ==
    /\ \A teamId \in Sockets : Silent(hostKickTeam(World, s, teamId, null))
    /\ \A pin \in PinInputs :
          /\ Silent(hostKickTeam(World, s, null, IF pin = 0 THEN null ELSE pin))
          /\ Silent(hostApproveTakeover(World, s, pin))
          /\ Silent(hostDenyTakeover(World, s, pin))
    /\ Silent(hostReset(World, s))
    /\ \A fq \in FlagInputs, fc \in FlagInputs : Silent(hostSetShuffle(World, s, fq, fc))
    /\ \A val \in BOOLEAN : Silent(hostSetManualScoring(World, s, val))
    /\ \A teamId \in Sockets, delta \in DeltaPayloads \cup {JsNumber(1)} :
          Silent(hostAdjustScore(World, s, teamId, delta))
    /\ \A gq \in buildGameQuestions(state.shuffleQuestions, state.shuffleChoices) :
          Silent(hostStart(World, s, gq))
    /\ Silent(hostPauseToggle(World, s))
    /\ Silent(hostReveal(World, s))
    /\ Silent(hostNext(World, s))

\* C16: every host-only command sent by a connection that is not the
\* registered host leaves the whole session state unchanged and emits nothing.
C16_NonHostIgnored ==
    \A s \in sockets : s # state.hostId => HostCommandsIgnored(s)

\* A question is on, a host is registered, and the other device holds a team
\* while its request to take over the host's team is pending: each of its
\* host commands would act if it were let through.
C16_Witness ==
    /\ state.phase = "question"
    /\ state.hostId \in sockets
    /\ \E s \in sockets, p \in DOMAIN pendingTakeovers :
          /\ s # state.hostId
          /\ s \in DOMAIN state.teams
          /\ pendingTakeovers[p] = s
          /\ state.hostId \in DOMAIN state.teams
          /\ state.teams[state.hostId].pin = p

\* C17: hostReset by the host always yields phase lobby with no teams, no
\* claimed codes and no pending takeover requests, from any prior state;
\* every previously claimed code can then be joined directly, by any device.
C17_ResetClearsSession ==
    [][ lastEvent'.op = "hostReset"
        => /\ state'.phase = "lobby"
           /\ DOMAIN state'.teams = {}
           /\ state'.claimedPins = {}
           /\ DOMAIN pendingTakeovers' = {}
           /\ \A pin \in state.claimedPins, s \in sockets' :
                 LET w == joinTeam(World', s, pin)
                 IN  /\ s \in DOMAIN w.state.teams
                     /\ w.state.teams[s].pin = pin
                     /\ w.state.claimedPins = {pin}
                     /\ DOMAIN w.pendingTakeovers = {} ]_vars

\* The host reset a session that was past the lobby and had a takeover
\* request pending on a claimed code.
C17_Witness ==
    /\ lastEvent.op = "hostReset"
    /\ lastEvent.prePhase \in {"question", "revealed", "leaderboard", "finished"}
    /\ lastEvent.ended # {}
    /\ state.phase = "lobby"
    /\ sockets # {}

\* -------------------------------------------------------------- projections
\* the world after the step
After ==
    [ state |-> state', pendingTakeovers |-> pendingTakeovers', sockets |-> sockets',
      emitted |-> emitted', calls |-> calls' ]

\* the last message of the event to connection s carries the current
\* projection
PublicPushed(w, s) ==
    [to |-> s, ev |-> "state", data |-> [public |-> publicState(w.state)]] \in w.emitted
HostPushed(w) ==
    [to |-> w.state.hostId, ev |-> "hostState", data |-> [host |-> hostState(w)]]
        \in w.emitted

\* an event leaves world w: whoever sees a projection that the event changed,
\* or sees it for the first time, has been sent it
ObserversCurrent(w) ==
    /\ \A s \in w.sockets :
          (s \notin sockets \/ publicState(w.state) # publicState(state))
          => PublicPushed(w, s)
    /\ (w.state.hostId \in w.sockets
          /\ (w.state.hostId # state.hostId \/ hostState(w) # hostState(World)))
       => HostPushed(w)

\* an event leaves world w: if it changed the session, every connection has
\* been sent the public projection and the host the host projection
AllPushed(w) ==
    (w.state # state \/ w.pendingTakeovers # pendingTakeovers)
    => /\ \A s \in w.sockets : PublicPushed(w, s)
       /\ w.state.hostId \in w.sockets => HostPushed(w)

\* the handlers no action of the specification takes, applied to the current
\* state with every input
OtherHandlers ==
    {registerProjector(World, s) : s \in sockets}
    \cup {lockAnswer(World, s, v) : s \in sockets, v \in LockPayloads}
    \cup {hostSetManualScoring(World, s, val) : s \in sockets, val \in BOOLEAN}
    \cup {hostSetShuffle(World, s, fq, fc) : s \in sockets, fq \in FlagInputs, fc \in FlagInputs}
    \cup {hostAdjustScore(World, s, id, d) :
             s \in sockets, id \in Sockets, d \in DeltaPayloads \cup {JsNumber(1)}}
    \cup {tick(World)}

\* C18 as stated: every event that mutates session state ends by pushing the
\* public projection to all connections and the host projection to the host.
C18_EveryMutationPushesAll ==
    /\ [][AllPushed(After)]_vars
    /\ [](\A w \in OtherHandlers : AllPushed(w))

\* C18: every event that changes the public projection pushes the new public
\* projection to all connections, a new connection is sent it, and every
\* event that changes the host projection or the host pushes the new host
\* projection to the host: the last pushed projections are those of the
\* current state.
C18_ObserversStayCurrent ==
    /\ [][ObserversCurrent(After)]_vars
    /\ [](\A w \in OtherHandlers : ObserversCurrent(w))

\* A device asked to take over a claimed code: the host, another device, was
\* sent the host projection with the request in it, and nobody was sent the
\* public projection.
C18_Witness ==
    /\ lastEvent.op = "joinTeam"
    /\ lastEvent.arg \in DOMAIN pendingTakeovers
    /\ pendingTakeovers[lastEvent.arg] = lastEvent.by
    /\ state.hostId \in sockets \ {lastEvent.by}
    /\ [to |-> state.hostId, ev |-> "hostState", data |-> [host |-> hostState(World)]]
          \in emitted
    /\ \A m \in emitted : m.ev # "state"

\* C19 as stated: every run of the timer callback pushes the public projection
\* to all connections, in every phase and whether or not it changed the state.
C19_TickPushesPublic ==
    \A s \in sockets : PublicPushed(tick(World), s)

\* What the timer callback does: it pushes the public projection to all
\* connections when it reveals the answer of a running question whose time
\* is up, and otherwise sends nothing.
C19_TickPushesOnlyOnReveal ==
    IF Expired
    THEN \A s \in sockets : PublicPushed(tick(World), s)
    ELSE Silent(tick(World))

\* ----------------------------------------------------------- question log
\* the appendQuestionRow calls the event of the step issued
QuestionAppends(cs) == { i \in 1..Len(cs) : cs[i].fn = "appendQuestionRow" }

\* the step is the host resuming the paused question
ResumeStep ==
    /\ lastEvent'.op = "hostPauseToggle"
    /\ state.phase = "question" /\ state.paused
    /\ state'.phase = "question" /\ ~state'.paused

\* the step is the host resuming a question that has not run yet
FirstResumeStep ==
    /\ ResumeStep
    /\ ~state.questionLogged
    /\ state.accumulatedRunMs = 0

\* what a step does to the question log and to the questionLogged mark
C20_LogStep ==
    /\ Cardinality(QuestionAppends(calls')) = (IF FirstResumeStep THEN 1 ELSE 0)
    /\ ResumeStep => state'.questionLogged
    /\ (state.questionLogged /\ ~state'.questionLogged)
       => /\ lastEvent'.op \in {"hostStart", "hostNext", "hostReset"}
          /\ state'.phase \in {"question", "lobby"}
          /\ state'.paused /\ state'.accumulatedRunMs = 0
    /\ (~state.questionLogged /\ state'.questionLogged) => FirstResumeStep

\* C20: within one question, over any number of pause/resume cycles, the
\* question-log append is issued exactly once, by the first resume, and by no
\* other event until the next question starts: a question that has not run
\* yet is not logged, a question that runs or has run is logged, and only
\* the start of a question or a reset clears the mark.
C20_QuestionLoggedOnce ==
    /\ [][C20_LogStep]_vars
    /\ [](state.phase = "question"
            => /\ getCurrentQuestionObj(state) # <<>>
               /\ ~state.questionLogged
                  => state.paused /\ state.accumulatedRunMs = 0 /\ state.startedAtMs = 0
               /\ (~state.paused \/ state.accumulatedRunMs > 0) => state.questionLogged)

\* The host resumed a question for the second time, after it had run for a
\* while: the question is marked as logged and the resume issued no append.
C20_Witness ==
    /\ lastEvent.op = "hostPauseToggle"
    /\ state.phase = "question"
    /\ ~state.paused
    /\ state.accumulatedRunMs > 0
    /\ state.questionLogged
    /\ QuestionAppends(calls) = {}

\* ------------------------------------------------------- reveal side effects
\* the calls of function fn among the calls cs of one event
CallsOf(cs, fn) == { i \in 1..Len(cs) : cs[i].fn = fn }

\* C21 as stated: each reveal issues exactly one answer-log append, with one
\* row per team, and exactly one totals sync, in manual and in automatic
\* scoring mode.
C21_OneLogOneSyncPerReveal ==
    [][ RevealStep
        => /\ Cardinality(CallsOf(calls', "appendAnswerRows")) = 1
           /\ Cardinality(CallsOf(calls', "updateScoresToSheet")) = 1
           /\ \A i \in CallsOf(calls', "appendAnswerRows") :
                 calls'[i].rows = Cardinality(DOMAIN state.teams) ]_vars

\* What revealAnswer issues: one answer-log append and one totals sync in
\* manual mode, two of each in automatic mode, every append with one row per
\* team.
C21_TwoLogsTwoSyncsWhenAutomatic ==
    [][ RevealStep
        => LET n == IF state.manualScoring THEN 1 ELSE 2
           IN  /\ Cardinality(CallsOf(calls', "appendAnswerRows")) = n
               /\ Cardinality(CallsOf(calls', "updateScoresToSheet")) = n
               /\ \A i \in CallsOf(calls', "appendAnswerRows") :
                     calls'[i].rows = Cardinality(DOMAIN state.teams) ]_vars

\* ------------------------------------------------------------ scored once
\* the teams whose score the step changed
Rescored == { id \in DOMAIN state.teams \cap DOMAIN state'.teams :
                state'.teams[id].score # state.teams[id].score }

\* what a step does to the scores and to the phase of a question run
C22_ScoreStep ==
    /\ Rescored # {} => RevealStep
    /\ state.phase = "question" => state'.phase \in {"question", "revealed", "lobby"}
    /\ (state.phase # "question" /\ state'.phase = "question")
       => /\ lastEvent'.op \in {"hostStart", "hostNext"}
          /\ state'.paused /\ state'.accumulatedRunMs = 0
          /\ \A id \in DOMAIN state'.teams : state'.teams[id].lockedChoice = null

\* C22: a question run is scored at most once.  Only a reveal of a question
\* in phase question changes a score and it ends that phase; outside phase
\* question the timer callback and hostReveal, from any connection, do
\* nothing at all, whichever of the two made the reveal; and phase question
\* is entered again only by the start of a question, with no locks.
C22_ScoredOncePerRun ==
    /\ [][C22_ScoreStep]_vars
    /\ [](state.phase # "question"
            => /\ Silent(tick(World))
               /\ \A s \in sockets : Silent(hostReveal(World, s)))

\* The host revealed a question whose time was up before the timer callback
\* ran; a team got points for it, and the callback that runs next does
\* nothing.
C22_Witness ==
    /\ lastEvent.op = "hostReveal"
    /\ state.phase = "revealed"
    /\ state.accumulatedRunMs >= state.timeSec * 1000
    /\ \E id \in DOMAIN state.teams : state.teams[id].lastPointsAwarded > 0
    /\ Silent(tick(World))

C24_RequestsAreLive ==
    \A p \in DOMAIN pendingTakeovers :
        /\ p \in state.claimedPins
        /\ pendingTakeovers[p] \in sockets

\* A connection asked to take over a claimed code and then joined another
\* code itself: its request is still pending, for a claimed code, while it
\* holds a team.
C24_Witness ==
    \E p \in DOMAIN pendingTakeovers :
        /\ p \in state.claimedPins
        /\ pendingTakeovers[p] \in sockets
        /\ pendingTakeovers[p] \in DOMAIN state.teams
        /\ state.teams[pendingTakeovers[p]].pin # p
        /\ lastEvent.op = "joinTeam"
        /\ lastEvent.by = pendingTakeovers[p]

\* ------------------------------------------------------------- new teams
\* a team as doJoinTeam creates it for code pin
Fresh(t, pin) ==
    /\ t.pin = pin
    /\ t.score = 0
    /\ t.lockedChoice = null
    /\ t.lockedAtRunMs = null
    /\ t.lastResult = "null"
    /\ t.lastPointsAwarded = 0

\* the teams that world w has and the current state has not, or has with
\* other contents
CreatedTeams(w) ==
    { id \in DOMAIN w.state.teams :
        id \notin DOMAIN state.teams \/ w.state.teams[id] # state.teams[id] }

\* the holder of code p has points or a locked answer
HolderHasPlayed(p) ==
    \E h \in Holders(p) : state.teams[h].score > 0 /\ state.teams[h].lockedChoice # null

\* C25: a team created by joinTeam or by an approved takeover starts with
\* score 0 and no locked answer, whatever the previous holder of the code had:
\* in every reachable state, whatever joinTeam and hostApproveTakeover create
\* or replace is a fresh team for the code of the event.
C25_NewTeamStartsFresh ==
    /\ \A s \in sockets, p \in PinInputs :
          \A id \in CreatedTeams(joinTeam(World, s, p)) :
              id = s /\ Fresh(joinTeam(World, s, p).state.teams[id], p)
    /\ \A s \in sockets, p \in PinInputs :
          \A id \in CreatedTeams(hostApproveTakeover(World, s, p)) :
              /\ id = pendingTakeovers[p]
              /\ Fresh(hostApproveTakeover(World, s, p).state.teams[id], p)

\* The holder of a code has points and a locked answer, another device asked
\* for the code, and the approval by the host makes that device the team of
\* the code, with score 0 and no lock, and removes the holder.
C25_Witness ==
    \E p \in DOMAIN pendingTakeovers :
        /\ HolderHasPlayed(p)
        /\ state.hostId \in sockets
        /\ pendingTakeovers[p] \in sockets \ Holders(p)
        /\ LET w == hostApproveTakeover(World, state.hostId, p)
           IN  /\ DOMAIN w.state.teams = {pendingTakeovers[p]}
               /\ Fresh(w.state.teams[pendingTakeovers[p]], p)

\* ------------------------------------------------------ reset and the host
\* C26: hostReset also clears the host registration.  Right after a reset no
\* connection is the host; while no connection is the host every host-only
\* command of every connection, the one that sent the reset included, is
\* ignored; and only registerHost makes a connection the host again.
C26_ResetUnregistersHost ==
    /\ [][ lastEvent'.op = "hostReset" => state'.hostId = null ]_vars
    /\ [](state.hostId = null => \A s \in sockets : HostCommandsIgnored(s))
    /\ [][ (state.hostId = null /\ state'.hostId # null)
            => /\ lastEvent'.op = "registerHost"
               /\ state'.hostId = lastEvent'.by ]_vars

\* The host reset a game that had begun while another device was connected:
\* the connection that sent the reset is still there and is no longer the
\* host, and the game it could start before is not started by its hostStart.
C26_Witness ==
    /\ lastEvent.op = "hostReset"
    /\ lastEvent.prePhase # "lobby"
    /\ lastEvent.by \in sockets
    /\ Cardinality(sockets) = 2
    /\ state.hostId = null
    /\ \A gq \in buildGameQuestions(state.shuffleQuestions, state.shuffleChoices) :
          /\ Silent(hostStart(World, lastEvent.by, gq))
          /\ ~Silent(hostStart([World EXCEPT !.state.hostId = lastEvent.by],
                                lastEvent.by, gq))

====
